---- MODULE Spec2Model ----
(***************************************************************************)
(* Model of src/weather_by_storm.py: the shared HTTP session with its      *)
(* urllib3 Retry policy (fetch_json / fetch_text / SESSION.get) and the    *)
(* poll cycle build_map with its seven source sections.                    *)
(***************************************************************************)
EXTENDS Integers, Sequences, FiniteSets, TLC

VARIABLES
    \* ---- shared fetch client (one request through SESSION) ----
    fState,     \* "idle" | "sending" | "done"
    fCaller,    \* "fetch_json" | "fetch_text" | "SESSION.get" | "none"
    fTotal,     \* Retry.total still available to the request
    fHist,      \* outcomes of the underlying attempts, oldest first
    fResult,    \* "none" | "body" | "response" | name of the raised exception
    \* ---- build_map (one poll cycle) ----
    pc,         \* section of build_map that runs next
    inflight,   \* URLs whose GET has been issued and not yet returned
    started,    \* sources whose (first) fetch has been issued in this cycle
    failAt,     \* number of events drawn when a fetch last raised; -1: none has
    anyOk,      \* some fetch of this cycle returned a body
    errored,    \* sources whose section raised while handling its records
    spcIdx,     \* SPC: index (1..6) of the report URL being read
    spcRows,    \* rows collected for the SPC kind being read
    lsrCount,   \* SPC: local lsr_count
    results,    \* USGS: list `results`, in completion order
    events,     \* what has been drawn on the map, in drawing order
    counts,     \* dict `counts`
    given,      \* number of feed records handed out by the environment
    valid,      \* how many of them were point records with parseable fields
    eqSeen,     \* what each USGS feed was seen to hold (the feed is fixed once seen)
    \* ---- successive polls of main ----
    cycleNo,    \* number of the poll cycle
    prevEvents, \* events of the previous poll cycle
    \* ---- one call of a pure helper ----
    fn,         \* name of the helper that was called, or "none"
    arg,        \* its argument
    out,        \* what it returned
    \* ---- the polling loop of main ----
    mpc,        \* "quick" | "full" | "save" | "check" | "sleep" | "exited"
    elapsed,    \* seconds since start (_time.monotonic() - start)
    log         \* what the current pass of the loop has done so far

fvars == <<fState, fCaller, fTotal, fHist, fResult>>
pvars == <<cycleNo, prevEvents>>
xvars == <<fn, arg, out>>
mvars == <<mpc, elapsed, log>>
svars == <<pc, inflight, started, failAt, anyOk, errored, spcIdx, spcRows, lsrCount, results,
           events, counts, given, valid, eqSeen>>
cvars == <<pc, inflight, started, failAt, anyOk, errored, spcIdx, spcRows, lsrCount, results,
           events, counts, given, valid, eqSeen, cycleNo, prevEvents, fn, arg, out,
           mpc, elapsed, log>>
vars == <<fState, fCaller, fTotal, fHist, fResult,
          pc, inflight, started, failAt, anyOk, errored, spcIdx, spcRows, lsrCount, results,
          events, counts, given, valid, eqSeen, cycleNo, prevEvents, fn, arg, out,
          mpc, elapsed, log>>

(***************************************************************************)
(* Values read from a feed: JSON null / missing, a number, or a string     *)
(* (a sequence of characters).  Every number is held in tenths: 405 is     *)
(* 40.5 (degrees, km of depth, magnitude, knots).                          *)
(***************************************************************************)
NoneV == [t |-> "none"]
Num(n) == [t |-> "num", v |-> n]
Str(s) == [t |-> "str", s |-> s]
IsNone(v) == v.t = "none"

\* The floats that are not numbers of tenths: float("inf"), float("nan").
InfV(neg) == [t |-> "inf", neg |-> neg]
NanV == [t |-> "nan"]

(***************************************************************************)
(* The shared session: Retry(total=2, backoff_factor=0.5,                  *)
(* status_forcelist=[429,500,502,503,504], allowed_methods=["GET"]).       *)
(***************************************************************************)
RetryTotal == 2

StatusForcelist == {429, 500, 502, 503, 504}

\* urllib3 Retry.RETRY_AFTER_STATUS_CODES, honoured because
\* respect_retry_after_header keeps its default (True).
RetryAfterStatusCodes == {413, 429, 503}

\* Statuses the server may answer with (3xx stands for one without Location).
Statuses == {200, 304, 404, 413, 429, 500, 502, 503, 504}

NetErrors == {"ConnectionError", "ConnectTimeout", "ReadTimeout"}

\* What one underlying attempt (one urlopen round) can end in.
AttemptOutcomes ==
    [kind : {"response"}, status : Statuses, retryAfter : BOOLEAN]
    \cup [kind : {"error"}, error : NetErrors]

Callers == {"fetch_json", "fetch_text", "SESSION.get"}

\* Mutant: no status is ever retried.
IsRetryNever(total, o) == FALSE

\* Retry.is_retry for a GET: a forcelisted status always asks for a retry;
\* a Retry-After header asks for one only while total is non-zero.
IsRetry(total, o) ==
    \/ o.status \in StatusForcelist
    \/ (total # 0 /\ o.retryAfter /\ o.status \in RetryAfterStatusCodes)

\* Retry.increment: every retried outcome, error or status, costs one of total.
Increment(total) == total - 1

\* Mutant: the retry budget is exhausted one attempt too late.
IsExhaustedLate(total) == total < -1

\* Retry.is_exhausted
IsExhausted(total) == total < 0

\* Mutant: raise_for_status that lets client errors through.
RaisesForServerErrorOnly(status) == status >= 500 /\ status < 600

\* Response.raise_for_status raises HTTPError for 4xx and 5xx only.
RaisesForStatus(status) == status >= 400 /\ status < 600

\* Mutant: every exhausted retry is reported as a status failure.
GiveUpAlwaysRetryError(o) == "RetryError"

\* What requests raises when urllib3 gives up (MaxRetryError) on outcome o.
GiveUpError(o) ==
    IF o.kind = "response" THEN "RetryError"
    ELSE IF o.error = "ConnectTimeout" THEN "ConnectTimeout"
    ELSE "ConnectionError"

\* Error kinds of the fetch contract: HTTPError covers a non-2xx status and
\* exhausted status retries, NetworkError a timeout or connection failure.
ErrorKind(res) ==
    CASE res \in {"HTTPError", "RetryError"} -> "HTTPError"
      [] res \in {"ConnectionError", "ConnectTimeout", "ReadTimeout"} -> "NetworkError"
      [] res = "JSONDecodeError" -> "ParseError"
      [] OTHER -> "none"

\* The caller's part once the session hands back a response with `status`.
CallerResults(caller, status) ==
    IF caller = "SESSION.get" THEN {"response"}
    ELSE IF RaisesForStatus(status) THEN {"HTTPError"}
    ELSE IF caller = "fetch_json" THEN {"body", "JSONDecodeError"}
    ELSE {"body"}

\* fetch_json(url) / fetch_text(url) / SESSION.get(url): the request is issued.
Call(caller) ==
    /\ fState = "idle"
    /\ fState' = "sending"
    /\ fCaller' = caller
    /\ fTotal' = RetryTotal
    /\ fHist' = <<>>
    /\ fResult' = "none"
    /\ UNCHANGED cvars

\* One underlying attempt ends in outcome o; the adapter retries, gives up or
\* returns the response to the caller.
Attempt(o) ==
    /\ fState = "sending"
    /\ fHist' = Append(fHist, o)
    /\ IF o.kind = "error" \/ IsRetry(fTotal, o)
       THEN IF IsExhausted(Increment(fTotal))
            THEN /\ fState' = "done"
                 /\ fResult' = GiveUpError(o)
                 /\ fTotal' = Increment(fTotal)
            ELSE /\ fState' = "sending"
                 /\ fResult' = "none"
                 /\ fTotal' = Increment(fTotal)
       ELSE /\ fState' = "done"
            /\ fResult' \in CallerResults(fCaller, o.status)
            /\ fTotal' = fTotal
    /\ UNCHANGED <<fCaller>>
    /\ UNCHANGED cvars

InitFetchVars ==
    /\ fState = "idle"
    /\ fCaller = "none"
    /\ fTotal = RetryTotal
    /\ fHist = <<>>
    /\ fResult = "none"

InitCycleVars ==
    /\ pc = "radar"
    /\ inflight = {}
    /\ started = {}
    /\ failAt = -1
    /\ anyOk = FALSE
    /\ errored = {}
    /\ spcIdx = 0
    /\ spcRows = <<>>
    /\ lsrCount = 0
    /\ results = <<>>
    /\ events = <<>>
    /\ counts = [k \in {"radar", "nws", "earthquakes", "fires", "storms"} |-> 0]
    /\ given = 0
    /\ valid = 0
    /\ eqSeen = [u \in {"2.5_day", "4.5_day"} |-> [st |-> "unset", feats |-> <<>>]]
    /\ cycleNo = 1
    /\ prevEvents = <<>>
    /\ fn = "none"
    /\ arg = NoneV
    /\ out = NoneV
    /\ mpc = "quick"
    /\ elapsed = 0
    /\ log = <<>>

InitFetch == InitFetchVars /\ InitCycleVars

NextFetch ==
    \/ \E caller \in Callers : Call(caller)
    \/ \E o \in AttemptOutcomes : Attempt(o)

SpecFetch == InitFetch /\ [][NextFetch]_vars

(***************************************************************************)
(* Pure helpers of weather_by_storm.py.                                    *)
(***************************************************************************)
Digits == {"0", "1", "2", "3", "4", "5", "6", "7", "8", "9"}

DigitVal(c) ==
    CASE c = "0" -> 0 [] c = "1" -> 1 [] c = "2" -> 2 [] c = "3" -> 3
      [] c = "4" -> 4 [] c = "5" -> 5 [] c = "6" -> 6 [] c = "7" -> 7
      [] c = "8" -> 8 [] c = "9" -> 9

RECURSIVE NatOf(_)
NatOf(s) == IF s = <<>> THEN 0
            ELSE 10 * NatOf(SubSeq(s, 1, Len(s) - 1)) + DigitVal(s[Len(s)])

\* str.strip(): leading and trailing blanks removed.
RECURSIVE Strip(_)
Strip(s) ==
    IF s = <<>> THEN s
    ELSE IF Head(s) = " " THEN Strip(Tail(s))
    ELSE IF s[Len(s)] = " " THEN Strip(SubSeq(s, 1, Len(s) - 1))
    ELSE s

UpperChar(c) ==
    CASE c = "n" -> "N" [] c = "s" -> "S" [] c = "e" -> "E" [] c = "w" -> "W"
      [] c = "t" -> "T" [] c = "d" -> "D" [] c = "h" -> "H" [] c = "u" -> "U"
      [] c = "a" -> "A" [] c = "f" -> "F" [] c = "i" -> "I" [] c = "y" -> "Y"
      [] c = "x" -> "X"
      [] OTHER -> c

\* str.upper()
Upper(s) == [i \in 1..Len(s) |-> UpperChar(s[i])]

\* Position of the first "." of s, or 0.
DotAt(s) == IF \E i \in 1..Len(s) : s[i] = "."
            THEN CHOOSE i \in 1..Len(s) : s[i] = "." /\ \A j \in 1..(i - 1) : s[j] # "."
            ELSE 0

\* float(s) for an unsigned decimal literal; tenths, or -1 when float raises.
\* (The feeds modelled carry at most one fractional digit.)
UnsignedTenths(s) ==
    LET d == DotAt(s)
        ip == IF d = 0 THEN s ELSE SubSeq(s, 1, d - 1)
        fp == IF d = 0 THEN <<>> ELSE SubSeq(s, d + 1, Len(s))
    IN  IF /\ \A i \in 1..Len(ip) : ip[i] \in Digits
           /\ \A i \in 1..Len(fp) : fp[i] \in Digits
           /\ Len(ip) + Len(fp) > 0
        THEN 10 * NatOf(ip) + (IF fp = <<>> THEN 0 ELSE DigitVal(fp[1]))
        ELSE -1

\* float(s) for a string s: blanks trimmed, an optional sign, then a decimal
\* literal or, in any letter case, inf / infinity / nan.  (Exponents and
\* digit-group underscores do not occur in the texts modelled.)
FloatOfStr(s) ==
    LET t == Strip(s)
        neg == t # <<>> /\ Head(t) = "-"
        body == IF t # <<>> /\ Head(t) \in {"-", "+"} THEN Tail(t) ELSE t
        u == UnsignedTenths(body)
    IN  IF Upper(body) \in {<<"I", "N", "F">>, <<"I", "N", "F", "I", "N", "I", "T", "Y">>}
        THEN InfV(neg)
        ELSE IF Upper(body) = <<"N", "A", "N">> THEN NanV
        ELSE IF u < 0 THEN NoneV ELSE Num(IF neg THEN 0 - u ELSE u)

\* to_float(v): float(v), or None when float raises.
to_float(v) ==
    CASE v.t = "num" -> v
      [] v.t = "str" -> FloatOfStr(v.s)
      [] OTHER -> NoneV

\* -val if val is not None else None
Neg(v) ==
    CASE v.t = "none" -> NoneV
      [] v.t = "inf" -> InfV(~v.neg)
      [] v.t = "nan" -> NanV
      [] OTHER -> Num(0 - v.v)

\* parse_lat / parse_lon share their shape: `pos` keeps the sign, `neg` flips it.
ParseHemi(v, pos, neg) ==
    CASE v.t = "none" -> NoneV
      [] v.t = "num" -> v
      [] OTHER ->
            LET s == Upper(Strip(v.s))
                n == Len(s)
            IN  IF n > 0 /\ s[n] = pos THEN FloatOfStr(SubSeq(s, 1, n - 1))
                ELSE IF n > 0 /\ s[n] = neg THEN Neg(FloatOfStr(SubSeq(s, 1, n - 1)))
                ELSE FloatOfStr(s)

\* Mutant: the hemispheres of parse_lat are exchanged.
parse_lat_flipped(v) == ParseHemi(v, "S", "N")

parse_lat(v) == ParseHemi(v, "N", "S")

parse_lon(v) == ParseHemi(v, "E", "W")

\* Python truthiness of a feed value, and `a or b`.
Truthy(v) == (v.t = "num" /\ v.v # 0) \/ (v.t = "str" /\ v.s # <<>>)

Or(a, b) == IF Truthy(a) THEN a ELSE b

Max(a, b) == IF a >= b THEN a ELSE b

Min(a, b) == IF a <= b THEN a ELSE b

\* Mutant: the circle is drawn whatever the location.
DrawNeverRaises(lat, lon) == FALSE

\* add_faded_circle(layer, lat, lon, ...): folium.Circle rejects a location
\* that is not two numbers, in the try and again in the fallback, so the
\* call raises exactly when lat or lon is None.
DrawRaises(lat, lon) == IsNone(lat) \/ IsNone(lon)

\* What gets drawn: one event of `src` at (lat, lon), radius in metres.
Event(src, lat, lon, radius, name) ==
    [src |-> src, pos |-> <<lat.v, lon.v>>, radius |-> radius, name |-> name]

AreaEvent(src, name) ==
    [src |-> src, pos |-> <<>>, radius |-> 0, name |-> name]

(***************************************************************************)
(* Radius estimators.  Radii are in metres.                                *)
(***************************************************************************)
\* Mutant: the radius falls as the magnitude grows.
QuakeBaseRadiusFalling(m10) == 100000 - 100 * m10

\* (10 ** (1.02 * M - 1.83) / pi) ** 0.5 km, in metres, tabulated for the
\* magnitudes (tenths) the modelled feeds carry.
QuakeBaseRadiusM(m10) ==
    CASE m10 = -10 -> 21
      [] m10 = 0 -> 69
      [] m10 = 10 -> 222
      [] m10 = 20 -> 718
      [] m10 = 25 -> 1292
      [] m10 = 30 -> 2325
      [] m10 = 40 -> 7524
      [] m10 = 45 -> 13534
      [] m10 = 50 -> 24346
      [] m10 = 60 -> 78782
      [] m10 = 70 -> 254932
      [] m10 = 75 -> 458591
      [] m10 = 80 -> 824945
      [] m10 = 90 -> 2669470
      [] m10 = 100 -> 8638236

QuakeMags == {0, 25, 45, 60, 75, 90}

\* Mutant: the depth thresholds are inclusive.
QuakeAttenuatedInclusive(r, depth) ==
    IF IsNone(depth) THEN r
    ELSE IF depth.v >= 3000 THEN (r * 5) \div 10
    ELSE IF depth.v >= 700 THEN (r * 7) \div 10
    ELSE r

\* Depth attenuation (depth in tenths of km) and clamp to [2, 300] km.
QuakeAttenuated(r, depth) ==
    IF IsNone(depth) THEN r
    ELSE IF depth.v > 3000 THEN (r * 5) \div 10
    ELSE IF depth.v > 700 THEN (r * 7) \div 10
    ELSE r

\* Mutant: the radius is not clamped.
QuakeRadiusUnclamped(m10, depth) == QuakeAttenuated(QuakeBaseRadiusM(m10), depth)

QuakeRadiusM(m10, depth) ==
    Max(2000, Min(300000, QuakeAttenuated(QuakeBaseRadiusM(m10), depth)))

\* max(0.0, cos(radians(lat))) in thousandths, for the latitudes (tenths of a
\* degree) the modelled feeds carry.
CosMilli(lat10) ==
    CASE lat10 = 0 -> 1000
      [] lat10 \in {100, -100} -> 985
      [] lat10 \in {300, -300} -> 866
      [] lat10 \in {899, -899} -> 2
      [] lat10 \in {900, -900} -> 0
      [] lat10 \in {910, -910} -> 0

\* Integer square root, capped at 2000 (the clamp never lets more through).
IsqrtCapped(n) ==
    IF n >= 2000 * 2000 THEN 2000
    ELSE CHOOSE r \in 0..2000 : r * r <= n /\ n < (r + 1) * (r + 1)

\* Mutant: the nominal MODIS pixel radius is the fallback.
FireRadiusNominal(lat, scan, track) == 564

\* FIRMS footprint: sqrt(max(1, width_m * height_m) / pi) clamped to
\* [150, 2000] m, or 500 m when scan, track or lat is missing.
FireRadiusM(lat, scan, track) ==
    IF IsNone(scan) \/ IsNone(track) \/ IsNone(lat) THEN 500
    ELSE LET w == (scan.v * 11132 * CosMilli(lat.v)) \div 1000
             h == track.v * 11132
             a == IF w < 0 THEN 0 - w ELSE w
             b == IF h < 0 THEN 0 - h ELSE h
         IN  IF ~((w > 0 /\ h > 0) \/ (w < 0 /\ h < 0))
             THEN Max(150, Min(2000, IsqrtCapped(100 \div 314)))
             ELSE IF (a \div 10) * (b \div 10) >= 130000
             THEN 2000
             ELSE Max(150, Min(2000, IsqrtCapped((Max(1, a * b) * 100) \div 314)))

\* True when sub occurs in s.
Contains(s, sub) ==
    \E i \in 1..(Len(s) - Len(sub) + 1) : SubSeq(s, i, i + Len(sub) - 1) = sub

\* The digits of an integer literal after its optional sign.
IntBody(s) ==
    LET t == Strip(s)
    IN  IF t # <<>> /\ Head(t) \in {"-", "+"} THEN Tail(t) ELSE t

\* int(v) raises: v is a string that is not an integer literal.
IntRaises(v) ==
    CASE v.t = "num" -> FALSE
      [] v.t = "str" -> IntBody(v.s) = <<>> \/ \E i \in 1..Len(IntBody(v.s)) :
                                                  IntBody(v.s)[i] \notin Digits
      [] OTHER -> TRUE

\* int(v): a number truncated towards zero, an integer literal parsed.
IntOf(v) ==
    CASE v.t = "num" -> IF v.v >= 0 THEN v.v \div 10 ELSE 0 - ((0 - v.v) \div 10)
      [] v.t = "str" -> IF Head(Strip(v.s)) = "-" THEN 0 - NatOf(IntBody(v.s))
                        ELSE NatOf(IntBody(v.s))

\* The wind bands of estimate_tc_radius_km (kts in tenths of a knot), in km.
WindBandKm(kts) ==
    IF kts < 340 THEN 100
    ELSE IF kts < 500 THEN 150
    ELSE IF kts < 640 THEN 200
    ELSE IF kts < 830 THEN 250
    ELSE IF kts < 960 THEN 300
    ELSE IF kts < 1130 THEN 350
    ELSE IF kts < 1370 THEN 420
    ELSE 500

\* {0: 250, 1: 250, 2: 300, 3: 350, 4: 420, 5: 500}.get(c, 200.0)
CategoryKm(c) ==
    CASE c \in {0, 1} -> 250
      [] c = 2 -> 300
      [] c = 3 -> 350
      [] c = 4 -> 420
      [] c = 5 -> 500
      [] OTHER -> 200

STORM_RADIUS_KM == 200

\* str(x).upper() of the first truthy status field; numbers carry no letters.
StatusText(storm) ==
    LET v == Or(Or(Or(storm.type, storm.stormType), storm.class), storm.status)
    IN  IF v.t = "str" THEN Upper(v.s) ELSE <<>>

\* estimate_tc_radius_km(storm), in km.
estimate_tc_radius_km(storm) ==
    LET wind == to_float(Or(Or(Or(storm.wind, storm.maxWind), storm.intensity),
                            storm.sustainedWind))
        st == StatusText(storm)
    IN  IF ~IsNone(wind) THEN WindBandKm(Max(0, wind.v))
        ELSE IF ~IsNone(storm.sshs) /\ ~IntRaises(storm.sshs)
             THEN CategoryKm(IntOf(storm.sshs))
        ELSE IF Contains(st, <<"T", "D">>) THEN 120
        ELSE IF Contains(st, <<"T", "S">>) THEN 200
        ELSE IF Contains(st, <<"H", "U">>) THEN 320
        ELSE STORM_RADIUS_KM

\* Clamp to [60, 600] km, in metres.
CycloneRadiusM(storm) == Max(60, Min(600, estimate_tc_radius_km(storm))) * 1000

(***************************************************************************)
(* Feeds.  The environment answers each GET with a failure or with a body  *)
(* built from the records below; one poll cycle hands out at most          *)
(* MaxRecords records in all.                                              *)
(***************************************************************************)
MaxRecords == 2

SeqsUpTo(S, n) == UNION {[1..k -> S] : k \in 0..n}

Ch(a, b) == <<a, b>>

\* EONET geometry entries: coordinates are [lon, lat].
VolcanoGeos ==
    { [coords |-> <<Num(200), Num(100)>>],
      [coords |-> <<Num(400), Num(-300)>>],
      [coords |-> <<Num(200), NoneV>>],
      [coords |-> <<Num(200), Num(910)>>],
      [coords |-> <<>>] }

\* USGS features: coordinates are [lon, lat, depth], properties.mag.
QuakeFeatures ==
    { [coords |-> <<Num(200), Num(100), Num(100)>>, mag |-> Num(60)],
      [coords |-> <<Num(400), Num(-300), Num(4000)>>, mag |-> Num(45)],
      [coords |-> <<Num(200), NoneV>>, mag |-> Num(60)],
      [coords |-> <<Num(200), Num(910)>>, mag |-> Num(60)],
      [coords |-> <<>>, mag |-> Num(60)],
      [coords |-> <<Num(200), Num(100)>>, mag |-> NoneV] }

\* FIRMS rows (csv.DictReader).
FireRows ==
    { [latitude |-> Num(100), longitude |-> Num(200), scan |-> NoneV, track |-> NoneV],
      [latitude |-> Num(-300), longitude |-> Num(400), scan |-> Num(10), track |-> Num(10)],
      [latitude |-> NoneV, longitude |-> Num(200), scan |-> NoneV, track |-> NoneV],
      [latitude |-> Num(910), longitude |-> Num(200), scan |-> NoneV, track |-> NoneV] }

BlankStorm ==
    [lat |-> NoneV, lon |-> NoneV, wind |-> NoneV, maxWind |-> NoneV,
     intensity |-> NoneV, sustainedWind |-> NoneV, sshs |-> NoneV,
     type |-> NoneV, stormType |-> NoneV, class |-> NoneV, status |-> NoneV]

\* NHC storms.
Storms ==
    { [BlankStorm EXCEPT !.lat = Str(<<"1", "0", "N">>), !.lon = Str(<<"2", "0", "E">>),
                         !.wind = Num(900)],
      [BlankStorm EXCEPT !.lat = Num(-300), !.lon = Num(400), !.sshs = Num(30)],
      [BlankStorm EXCEPT !.lon = Str(<<"2", "0", "E">>), !.wind = Num(900)],
      [BlankStorm EXCEPT !.lat = Str(<<"9", "1", "N">>), !.lon = Str(<<"2", "0", "E">>),
                         !.wind = Num(900)] }

\* SPC report rows: number of columns and the last two columns.
SpcHeader == [n |-> 8, lat |-> Str(<<"L", "a", "t">>), lon |-> Str(<<"L", "o", "n">>)]

SpcRowsData ==
    { [n |-> 8, lat |-> Str(<<"1", "0", ".", "0">>), lon |-> Str(<<"2", "0", ".", "0">>)],
      [n |-> 8, lat |-> Str(<<"-", "3", "0">>), lon |-> Str(<<"4", "0">>)],
      [n |-> 8, lat |-> Str(<<>>), lon |-> Str(<<"2", "0">>)],
      [n |-> 8, lat |-> Str(<<"9", "1">>), lon |-> Str(<<"2", "0">>)],
      [n |-> 7, lat |-> Str(<<"1", "0">>), lon |-> Str(<<"2", "0">>)] }

\* NWS alert features: properties.event and geometry (None, or the [lon, lat]
\* pairs of its coordinates).
IncludeEvents ==
    { "Tornado Warning", "Tornado Watch", "Severe Thunderstorm Warning",
      "Severe Thunderstorm Watch", "Flash Flood Warning", "Flood Warning",
      "Hurricane Warning", "Hurricane Watch", "Tropical Storm Warning",
      "Winter Storm Warning", "Blizzard Warning", "Red Flag Warning",
      "Excessive Heat Warning", "High Wind Warning", "Special Marine Warning",
      "Tsunami Warning", "Tsunami Advisory", "Tsunami Watch" }

Geom(pairs) == [t |-> "geom", pairs |-> pairs]

AlertFeatures ==
    { [event |-> "Tornado Warning", geom |-> Geom(<<Ch(Num(200), Num(100))>>)],
      [event |-> "Frost Advisory", geom |-> Geom(<<Ch(Num(200), Num(100))>>)],
      [event |-> "Tornado Warning", geom |-> NoneV],
      [event |-> "Flood Warning", geom |-> Geom(<<Ch(Str(<<"x">>), Num(100))>>)] }

\* RainViewer index: whether the latest frame exists and has a path.
RadarBodies == {[path |-> TRUE], [path |-> FALSE]}

\* The records the feeds of a whole poll cycle (Spec) are built from.
CycleVolcanoGeos ==
    {g \in VolcanoGeos : g.coords # <<>>}

CycleQuakeFeatures ==
    {f \in QuakeFeatures : f.coords # <<>> /\ ~IsNone(f.mag)}

CycleFireRows == FireRows

CycleStorms == Storms

CycleSpcRows ==
    {r \in SpcRowsData : r.n = 8 /\ r.lat \in {Str(<<"1", "0", ".", "0">>), Str(<<>>)}}

CycleAlertFeatures ==
    {f \in AlertFeatures :
        ~IsNone(f.geom) /\ f.event \in {"Tornado Warning", "Frost Advisory"}}

SourceOrder ==
    <<"radar", "volcano", "alerts", "severe-reports", "earthquakes", "wildfires",
      "cyclones">>

Sources == {SourceOrder[i] : i \in 1..Len(SourceOrder)}

SpcUrls ==
    <<"today_torn", "yday_torn", "today_wind", "yday_wind", "today_hail", "yday_hail">>

SpcKind(i) == <<"tornado", "wind", "hail">>[(i + 1) \div 2]

\* Mutant: one radius for every kind of report.
SpcRadiusOneSize(kind) == 8000

SpcRadiusM(kind) ==
    CASE kind = "tornado" -> 8000 [] kind = "wind" -> 6000 [] kind = "hail" -> 5000

EqUrls == <<"2.5_day", "4.5_day">>

MAX_WORKERS == 6

\* ThreadPoolExecutor(max_workers=MAX_WORKERS): the submitted calls that run
\* at once.  (eq_urls is shorter than the pool, so none is left waiting.)
Submitted(urls) ==
    {urls[i] : i \in 1..(IF Len(urls) <= MAX_WORKERS THEN Len(urls) ELSE MAX_WORKERS)}

\* Mutant: the FIRMS section runs before the USGS section.
NextSectionFiresFirst(s) ==
    CASE s = "radar" -> "volcano"
      [] s = "volcano" -> "alerts"
      [] s = "alerts" -> "severe-reports"
      [] s = "severe-reports" -> "wildfires"
      [] s = "wildfires" -> "earthquakes"
      [] s = "earthquakes" -> "cyclones"
      [] s = "cyclones" -> "done"

\* The section that follows section s in build_map.
NextSection(s) ==
    CASE s = "radar" -> "volcano"
      [] s = "volcano" -> "alerts"
      [] s = "alerts" -> "severe-reports"
      [] s = "severe-reports" -> "earthquakes"
      [] s = "earthquakes" -> "wildfires"
      [] s = "wildfires" -> "cyclones"
      [] s = "cyclones" -> "done"

(***************************************************************************)
(* The record loops of build_map.  Each returns the events drawn so far    *)
(* (ev), the running count (n) and whether the loop was left by an         *)
(* exception (raised).                                                     *)
(***************************************************************************)
\* 2) EONET: for ev in events: for geo in ev["geometry"]
RECURSIVE VolcanoLoop(_, _, _)
VolcanoLoop(geos, i, evs) ==
    IF i > Len(geos) THEN [ev |-> evs, raised |-> FALSE]
    ELSE LET c == geos[i].coords
         IN  IF Len(c) < 2 THEN VolcanoLoop(geos, i + 1, evs)
             ELSE LET lon == to_float(c[1])
                      lat == to_float(c[2])
                  IN  IF DrawRaises(lat, lon) THEN [ev |-> evs, raised |-> TRUE]
                      ELSE VolcanoLoop(geos, i + 1,
                               Append(evs, Event("volcano", lat, lon, 20000, "")))

\* Mutant: every geometry that is present has bounds.
HasBoundsAlways(geom) == TRUE

\* geom_bounds(geom) is not None: some coordinate pair is two numbers.
HasBounds(geom) ==
    /\ geom.t = "geom"
    /\ \E i \in 1..Len(geom.pairs) :
          geom.pairs[i][1].t = "num" /\ geom.pairs[i][2].t = "num"

\* 3) NWS: for f in feats
RECURSIVE AlertLoop(_, _, _)
AlertLoop(feats, i, evs) ==
    IF i > Len(feats) THEN evs
    ELSE LET f == feats[i]
         IN  IF IsNone(f.geom) \/ f.event \notin IncludeEvents
             THEN AlertLoop(feats, i + 1, evs)
             ELSE IF ~HasBounds(f.geom) THEN AlertLoop(feats, i + 1, evs)
             ELSE AlertLoop(feats, i + 1, Append(evs, AreaEvent("alerts", f.event)))

\* 4) SPC: for row in rows[1:]
RECURSIVE SpcLoop(_, _, _, _)
SpcLoop(rows, i, kind, evs) ==
    IF i > Len(rows) THEN evs
    ELSE LET row == rows[i]
             lat == to_float(row.lat)
             lon == to_float(row.lon)
         IN  IF row.n < 8 THEN SpcLoop(rows, i + 1, kind, evs)
             ELSE IF IsNone(lat) \/ IsNone(lon) THEN SpcLoop(rows, i + 1, kind, evs)
             ELSE SpcLoop(rows, i + 1, kind,
                      Append(evs, Event("severe-reports", lat, lon, SpcRadiusM(kind), kind)))

\* 5) USGS: for eq in results: for feature in eq["features"]
RECURSIVE QuakeLoop(_, _, _)
QuakeLoop(feats, i, evs) ==
    IF i > Len(feats) THEN [ev |-> evs, raised |-> FALSE]
    ELSE LET c == feats[i].coords
             mag == feats[i].mag
         IN  IF Len(c) < 2 THEN QuakeLoop(feats, i + 1, evs)
             ELSE IF IsNone(to_float(mag)) THEN QuakeLoop(feats, i + 1, evs)
             ELSE LET lat == to_float(c[2])
                      lon == to_float(c[1])
                      depth == IF Len(c) >= 3 THEN to_float(c[3]) ELSE NoneV
                  IN  IF DrawRaises(lat, lon) THEN [ev |-> evs, raised |-> TRUE]
                      ELSE QuakeLoop(feats, i + 1,
                               Append(evs, Event("earthquakes", lat, lon,
                                                 QuakeRadiusM(to_float(mag).v, depth), "")))

\* Mutant: a fire at the position of an event already drawn is left out.
RECURSIVE FireLoopDedup(_, _, _)
FireLoopDedup(rows, i, evs) ==
    IF i > Len(rows) THEN [ev |-> evs, raised |-> FALSE]
    ELSE LET lat == to_float(rows[i].latitude)
             lon == to_float(rows[i].longitude)
             r == FireRadiusM(lat, to_float(rows[i].scan), to_float(rows[i].track))
         IN  IF DrawRaises(lat, lon) THEN [ev |-> evs, raised |-> TRUE]
             ELSE IF \E k \in 1..Len(evs) : evs[k].pos = <<lat.v, lon.v>>
             THEN FireLoopDedup(rows, i + 1, evs)
             ELSE FireLoopDedup(rows, i + 1,
                      Append(evs, Event("wildfires", lat, lon, r, "")))

\* 6) FIRMS: for row in reader
RECURSIVE FireLoop(_, _, _)
FireLoop(rows, i, evs) ==
    IF i > Len(rows) THEN [ev |-> evs, raised |-> FALSE]
    ELSE LET lat == to_float(rows[i].latitude)
             lon == to_float(rows[i].longitude)
             r == FireRadiusM(lat, to_float(rows[i].scan), to_float(rows[i].track))
         IN  IF DrawRaises(lat, lon) THEN [ev |-> evs, raised |-> TRUE]
             ELSE FireLoop(rows, i + 1, Append(evs, Event("wildfires", lat, lon, r, "")))

\* 7) NHC: for s in storms
RECURSIVE StormLoop(_, _, _)
StormLoop(storms, i, evs) ==
    IF i > Len(storms) THEN evs
    ELSE LET lat == parse_lat(storms[i].lat)
             lon == parse_lon(storms[i].lon)
         IN  IF IsNone(lat) \/ IsNone(lon) THEN StormLoop(storms, i + 1, evs)
             ELSE StormLoop(storms, i + 1,
                      Append(evs, Event("cyclones", lat, lon, CycloneRadiusM(storms[i]), "")))

\* results flattened: the features of every fetched feed, in list order.
RECURSIVE Flatten(_)
Flatten(ss) == IF ss = <<>> THEN <<>> ELSE Head(ss) \o Flatten(Tail(ss))

(***************************************************************************)
(* Records an adapter can draw: the coordinates (and, for a quake, the     *)
(* magnitude) are present and parse.  `valid` counts them as the feeds     *)
(* hand them out.                                                          *)
(***************************************************************************)
VolcanoValid(g) ==
    /\ Len(g.coords) >= 2
    /\ ~IsNone(to_float(g.coords[1])) /\ ~IsNone(to_float(g.coords[2]))

QuakeValid(f) ==
    /\ Len(f.coords) >= 2
    /\ ~IsNone(to_float(f.coords[1])) /\ ~IsNone(to_float(f.coords[2]))
    /\ ~IsNone(to_float(f.mag))

FireValid(r) == ~IsNone(to_float(r.latitude)) /\ ~IsNone(to_float(r.longitude))

StormValid(st) == ~IsNone(parse_lat(st.lat)) /\ ~IsNone(parse_lon(st.lon))

SpcValid(r) == r.n >= 8 /\ ~IsNone(to_float(r.lat)) /\ ~IsNone(to_float(r.lon))

CountIn(seq, ok) == Cardinality({i \in 1..Len(seq) : seq[i] \in ok})

(***************************************************************************)
(* build_map: one action per step of a section.  Sections run one after    *)
(* the other; a GET is issued, and later returns a body or raises.         *)
(***************************************************************************)
SingleUrlSections == {"radar", "volcano", "alerts", "wildfires", "cyclones"}

Left == MaxRecords - given

SetCount(key, n) == [k \in DOMAIN counts \cup {key} |-> IF k = key THEN n ELSE counts[k]]

\* Mutant: every source's GET is issued at once, outside any pool.
IssueAllAtOnce ==
    /\ pc = "radar"
    /\ inflight = {}
    /\ inflight' = Sources
    /\ started' = Sources
    /\ UNCHANGED <<pc, failAt, anyOk, errored, spcIdx, spcRows, lsrCount, results,
                   events, counts, given>>
    /\ UNCHANGED <<valid, eqSeen, pvars, xvars, mvars>>
    /\ UNCHANGED fvars

\* fetch_json / fetch_text / SESSION.get of a single-URL section is called.
Issue ==
    /\ pc \in SingleUrlSections
    /\ inflight = {}
    /\ inflight' = {pc}
    /\ started' = started \cup {pc}
    /\ UNCHANGED <<pc, failAt, anyOk, errored, spcIdx, spcRows, lsrCount, results,
                   events, counts, given>>
    /\ UNCHANGED <<valid, eqSeen, pvars, xvars, mvars>>
    /\ UNCHANGED fvars

\* Mutant: after a failure the same section is run again.
AfterFailureAgain(s) == s

\* Mutant: a failed source ends the poll cycle.
AfterFailureStop(s) == "done"

\* Where build_map goes on after the except branch of section s.
AfterFailure(s) == NextSection(s)

\* The GET of a single-URL section raises (or, for NWS, answers non-200 or an
\* empty document): the section's except branch prints and the next one runs.
FetchFails ==
    /\ pc \in SingleUrlSections
    /\ inflight = {pc}
    /\ inflight' = {}
    /\ failAt' = Len(events)
    /\ pc' = AfterFailure(pc)
    /\ UNCHANGED <<started, anyOk, errored, spcIdx, spcRows, lsrCount, results, events,
                   counts, given>>
    /\ UNCHANGED <<valid, eqSeen, pvars, xvars, mvars>>
    /\ UNCHANGED fvars

\* 1) RainViewer answers.
RadarDone ==
    /\ pc = "radar" /\ inflight = {"radar"}
    /\ \E body \in RadarBodies :
          IF body.path
          THEN /\ events' = Append(events, AreaEvent("radar", "tile"))
               /\ counts' = SetCount("radar", 1)
          ELSE UNCHANGED <<events, counts>>
    /\ inflight' = {}
    /\ anyOk' = TRUE
    /\ pc' = NextSection("radar")
    /\ UNCHANGED <<started, failAt, errored, spcIdx, spcRows, lsrCount, results, given>>
    /\ UNCHANGED <<valid, eqSeen, pvars, xvars, mvars>>
    /\ UNCHANGED fvars

\* 2) EONET answers with its geometries.
VolcanoDone ==
    /\ pc = "volcano" /\ inflight = {"volcano"}
    /\ \E geos \in SeqsUpTo(CycleVolcanoGeos, Left) :
          LET r == VolcanoLoop(geos, 1, events)
          IN  /\ given' = given + Len(geos)
              /\ valid' = valid + CountIn(geos, {x \in CycleVolcanoGeos : VolcanoValid(x)})
              /\ events' = r.ev
              /\ errored' = IF r.raised THEN errored \cup {"volcano"} ELSE errored
    /\ inflight' = {}
    /\ anyOk' = TRUE
    /\ pc' = NextSection("volcano")
    /\ UNCHANGED <<started, failAt, spcIdx, spcRows, lsrCount, results, counts>>
    /\ UNCHANGED <<eqSeen, pvars, xvars, mvars>>
    /\ UNCHANGED fvars

\* 3) NWS answers 200 with its features.
AlertsDone ==
    /\ pc = "alerts" /\ inflight = {"alerts"}
    /\ \E feats \in SeqsUpTo(CycleAlertFeatures, Left) :
          /\ given' = given + Len(feats)
          /\ events' = AlertLoop(feats, 1, events)
    /\ counts' = SetCount("nws", Len(events') - Len(events))
    /\ inflight' = {}
    /\ anyOk' = TRUE
    /\ pc' = NextSection("alerts")
    /\ UNCHANGED <<started, failAt, errored, spcIdx, spcRows, lsrCount, results>>
    /\ UNCHANGED <<valid, eqSeen, pvars, xvars, mvars>>
    /\ UNCHANGED fvars

\* 4) SPC: fetch_spc_csv(u) is called for the next report URL.
SpcIssue ==
    /\ pc = "severe-reports"
    /\ inflight = {}
    /\ spcIdx' = spcIdx + 1
    /\ inflight' = {SpcUrls[spcIdx + 1]}
    /\ started' = started \cup {"severe-reports"}
    /\ UNCHANGED <<pc, failAt, anyOk, errored, spcRows, lsrCount, results, events,
                   counts, given>>
    /\ UNCHANGED <<valid, eqSeen, pvars, xvars, mvars>>
    /\ UNCHANGED fvars

\* fetch_spc_csv returned `rows` ([] after a failure): rows.extend; after the
\* second URL of a kind its rows are drawn; after the last kind the count is
\* stored.
SpcReturned(rows) ==
    LET all == spcRows \o rows
        kindDone == spcIdx % 2 = 0
        evs == IF kindDone /\ all # <<>>
               THEN SpcLoop(Tail(all), 1, SpcKind(spcIdx), events)
               ELSE events
        n == lsrCount + (Len(evs) - Len(events))
    IN  /\ inflight' = {}
        /\ events' = evs
        /\ spcRows' = IF kindDone THEN <<>> ELSE all
        /\ IF spcIdx = Len(SpcUrls)
           THEN /\ counts' = SetCount("spc_lsr", n)
                /\ pc' = NextSection("severe-reports")
                /\ spcIdx' = 0
                /\ lsrCount' = 0
           ELSE /\ lsrCount' = n
                /\ UNCHANGED <<counts, pc, spcIdx>>

\* The report file is read: a header line and the data rows.
SpcFetched ==
    /\ pc = "severe-reports" /\ inflight # {}
    /\ \E data \in SeqsUpTo(CycleSpcRows, Left) :
          /\ given' = given + Len(data)
          /\ valid' = valid + CountIn(data, {x \in CycleSpcRows : SpcValid(x)})
          /\ SpcReturned(<<SpcHeader>> \o data)
    /\ anyOk' = TRUE
    /\ UNCHANGED <<started, failAt, errored, results>>
    /\ UNCHANGED <<eqSeen, pvars, xvars, mvars>>
    /\ UNCHANGED fvars

SpcFetchFails ==
    /\ pc = "severe-reports" /\ inflight # {}
    /\ failAt' = Len(events)
    /\ SpcReturned(<<>>)
    /\ UNCHANGED <<started, anyOk, errored, results, given>>
    /\ UNCHANGED <<valid, eqSeen, pvars, xvars, mvars>>
    /\ UNCHANGED fvars

\* 5) USGS: both feeds are submitted to the ThreadPoolExecutor.
EqSubmit ==
    /\ pc = "earthquakes"
    /\ inflight = {}
    /\ inflight' = Submitted(EqUrls)
    /\ results' = <<>>
    /\ started' = started \cup {"earthquakes"}
    /\ pc' = "earthquakes-wait"
    /\ UNCHANGED <<failAt, anyOk, errored, spcIdx, spcRows, lsrCount, events, counts,
                   given>>
    /\ UNCHANGED <<valid, eqSeen, pvars, xvars, mvars>>
    /\ UNCHANGED fvars

\* Mutant: the loop over as_completed is left after the first future.
AfterCompletionEarly(left) == "earthquakes-parse"

AfterCompletion(left) == IF left = {} THEN "earthquakes-parse" ELSE "earthquakes-wait"

\* as_completed yields the future of url u, which holds a feed's features.
EqFetched(u) ==
    /\ pc = "earthquakes-wait" /\ u \in inflight
    /\ eqSeen[u].st \in {"unset", "ok"}
    /\ \E feats \in (IF eqSeen[u].st = "unset"
                      THEN SeqsUpTo(CycleQuakeFeatures, Left)
                      ELSE {eqSeen[u].feats}) :
          /\ given' = given + Len(feats)
          /\ valid' = valid + CountIn(feats, {x \in CycleQuakeFeatures : QuakeValid(x)})
          /\ eqSeen' = [eqSeen EXCEPT ![u] = [st |-> "ok", feats |-> feats]]
          /\ results' = Append(results, feats)
    /\ inflight' = inflight \ {u}
    /\ anyOk' = TRUE
    /\ pc' = AfterCompletion(inflight')
    /\ UNCHANGED <<started, failAt, errored, spcIdx, spcRows, lsrCount, events, counts>>
    /\ UNCHANGED <<pvars, xvars, mvars>>
    /\ UNCHANGED fvars

\* as_completed yields the future of url u, whose result() raises.
EqFetchFails(u) ==
    /\ pc = "earthquakes-wait" /\ u \in inflight
    /\ eqSeen[u].st \in {"unset", "fail"}
    /\ eqSeen' = [eqSeen EXCEPT ![u] = [st |-> "fail", feats |-> <<>>]]
    /\ failAt' = Len(events)
    /\ inflight' = inflight \ {u}
    /\ pc' = AfterCompletion(inflight')
    /\ UNCHANGED <<started, anyOk, errored, spcIdx, spcRows, lsrCount, results, events,
                   counts, given>>
    /\ UNCHANGED <<valid, pvars, xvars, mvars>>
    /\ UNCHANGED fvars

\* for eq in results: ... ; counts["earthquakes"] = n_quakes
EqParse ==
    /\ pc = "earthquakes-parse"
    /\ LET r == QuakeLoop(Flatten(results), 1, events)
       IN  /\ events' = r.ev
           /\ IF r.raised
              THEN /\ errored' = errored \cup {"earthquakes"}
                   /\ UNCHANGED counts
              ELSE /\ counts' = SetCount("earthquakes", Len(r.ev) - Len(events))
                   /\ UNCHANGED errored
    /\ pc' = NextSection("earthquakes")
    /\ UNCHANGED <<inflight, started, failAt, anyOk, spcIdx, spcRows, lsrCount, results,
                   given>>
    /\ UNCHANGED <<valid, eqSeen, pvars, xvars, mvars>>
    /\ UNCHANGED fvars

\* 6) FIRMS answers with its rows.
FiresDone ==
    /\ pc = "wildfires" /\ inflight = {"wildfires"}
    /\ \E rows \in SeqsUpTo(CycleFireRows, Left) :
          LET r == FireLoop(rows, 1, events)
          IN  /\ given' = given + Len(rows)
              /\ valid' = valid + CountIn(rows, {x \in CycleFireRows : FireValid(x)})
              /\ events' = r.ev
              /\ IF r.raised
                 THEN /\ errored' = errored \cup {"wildfires"}
                      /\ UNCHANGED counts
                 ELSE /\ counts' = SetCount("fires", Len(r.ev) - Len(events))
                      /\ UNCHANGED errored
    /\ inflight' = {}
    /\ anyOk' = TRUE
    /\ pc' = NextSection("wildfires")
    /\ UNCHANGED <<started, failAt, spcIdx, spcRows, lsrCount, results>>
    /\ UNCHANGED <<eqSeen, pvars, xvars, mvars>>
    /\ UNCHANGED fvars

\* 7) NHC answers; storms = currentStorms or activeStorms or [].
StormsDone ==
    /\ pc = "cyclones" /\ inflight = {"cyclones"}
    /\ \E cur \in SeqsUpTo(CycleStorms, Left) :
       \E act \in SeqsUpTo(CycleStorms, IF cur = <<>> THEN Left ELSE 0) :
          /\ given' = given + Len(cur) + Len(act)
          /\ valid' = valid + CountIn(IF cur # <<>> THEN cur ELSE act,
                                     {x \in CycleStorms : StormValid(x)})
          /\ events' = StormLoop(IF cur # <<>> THEN cur ELSE act, 1, events)
    /\ counts' = SetCount("storms", counts["storms"] + (Len(events') - Len(events)))
    /\ inflight' = {}
    /\ anyOk' = TRUE
    /\ pc' = NextSection("cyclones")
    /\ UNCHANGED <<started, failAt, errored, spcIdx, spcRows, lsrCount, results>>
    /\ UNCHANGED <<eqSeen, pvars, xvars, mvars>>
    /\ UNCHANGED fvars

Init == InitFetchVars /\ InitCycleVars

(***************************************************************************)
(* The USGS section alone, polled twice against unchanged feeds: every     *)
(* other feed is down, so no other section draws anything.                 *)
(***************************************************************************)
BeforeUsgs == {"radar", "volcano", "alerts", "severe-reports"}

\* build_map has reached section 5 with every earlier fetch failed.
AtUsgsAllDown ==
    /\ pc = "earthquakes"
    /\ inflight = {}
    /\ started = BeforeUsgs
    /\ failAt = 0
    /\ anyOk = FALSE
    /\ errored = {}
    /\ spcIdx = 0
    /\ spcRows = <<>>
    /\ lsrCount = 0
    /\ events = <<>>
    /\ counts = [k \in {"radar", "nws", "earthquakes", "fires", "storms", "spc_lsr"} |-> 0]
    /\ given = 0
    /\ valid = 0

InitQuakes ==
    /\ InitFetchVars
    /\ AtUsgsAllDown
    /\ results = <<>>
    /\ eqSeen = [u \in {"2.5_day", "4.5_day"} |-> [st |-> "unset", feats |-> <<>>]]
    /\ cycleNo = 1
    /\ prevEvents = <<>>
    /\ fn = "none"
    /\ arg = NoneV
    /\ out = NoneV
    /\ mpc = "quick"
    /\ elapsed = 0
    /\ log = <<>>

\* main: the poll ends (FIRMS and NHC down), the loop sleeps and build_map
\* runs again up to section 5.
NextPollReachesUsgs ==
    /\ pc = "wildfires"
    /\ cycleNo = 1
    /\ cycleNo' = 2
    /\ prevEvents' = events
    /\ pc' = "earthquakes"
    /\ inflight' = {}
    /\ started' = BeforeUsgs
    /\ failAt' = 0
    /\ anyOk' = FALSE
    /\ errored' = {}
    /\ events' = <<>>
    /\ counts' = [k \in {"radar", "nws", "earthquakes", "fires", "storms", "spc_lsr"} |-> 0]
    /\ given' = 0
    /\ valid' = 0
    /\ UNCHANGED <<spcIdx, spcRows, lsrCount>>
    /\ UNCHANGED <<results, eqSeen>>
    /\ UNCHANGED <<xvars, mvars>>
    /\ UNCHANGED fvars

NextQuakes ==
    \/ EqSubmit
    \/ \E u \in inflight : EqFetched(u)
    \/ \E u \in inflight : EqFetchFails(u)
    \/ EqParse
    \/ NextPollReachesUsgs

SpecQuakes == InitQuakes /\ [][NextQuakes]_vars

Next ==
    \/ Issue
    \/ FetchFails
    \/ RadarDone
    \/ VolcanoDone
    \/ AlertsDone
    \/ SpcIssue
    \/ SpcFetched
    \/ SpcFetchFails
    \/ EqSubmit
    \/ \E u \in inflight : EqFetched(u)
    \/ \E u \in inflight : EqFetchFails(u)
    \/ EqParse
    \/ FiresDone
    \/ StormsDone

Spec == Init /\ [][Next]_vars

\* Every GET carries a timeout (TIMEOUT, or 20 s for NWS), so an outstanding
\* request returns or raises and the sequential code takes its next step.
SpecLive == Spec /\ WF_vars(Next)

(***************************************************************************)
(* The pure helpers called on their own: the argument is drawn from the    *)
(* sets below, one call is made and its result kept.                       *)
(***************************************************************************)
\* Magnitudes (tenths) and depths (tenths of km) given to the USGS radius.
HelperMags == {-10, 0, 10, 20, 25, 30, 40, 45, 50, 60, 70, 75, 80, 90, 100}

HelperDepths ==
    {NoneV, Num(-50), Num(0), Num(100), Num(700), Num(701), Num(1000), Num(3000),
     Num(3001), Num(4000)}

HelperFireLats == {NoneV, Num(0), Num(300), Num(-899), Num(899), Num(900), Num(910)}

HelperAngles == {NoneV, Num(-10), Num(0), Num(1), Num(10)}

HelperWinds ==
    {NoneV, Num(-50), Num(0), Num(339), Num(340), Num(499), Num(500), Num(639), Num(640),
     Num(829), Num(830), Num(900), Num(959), Num(960), Num(1129), Num(1130), Num(1369),
     Num(1370), Num(2000), Str(<<"9", "0">>), Str(<<"0">>), Str(<<>>)}

HelperCategories ==
    {NoneV, Num(0), Num(10), Num(20), Num(30), Num(40), Num(50), Num(60), Num(-10),
     Str(<<"3">>), Str(<<"x">>)}

HelperStatuses ==
    {NoneV, Str(<<"T", "D">>), Str(<<"T", "S">>), Str(<<"H", "U">>), Str(<<"t", "d">>),
     Str(<<"h", "u", "r", "r", "i", "c", "a", "n", "e">>), Str(<<"E", "X">>)}

HelperMaxWinds == {NoneV, Num(900)}

HelperStorms ==
    {[BlankStorm EXCEPT !.wind = w, !.maxWind = mw, !.sshs = c, !.type = st] :
        w \in HelperWinds, mw \in HelperMaxWinds, c \in HelperCategories,
        st \in HelperStatuses}

\* Coordinate texts: blanks, an optional sign, a decimal literal (or none),
\* an optional trailing letter; and a few words.
HelperLiterals ==
    {<<>>, <<"0">>, <<"5">>, <<"9", "1">>, <<"4", "0", ".", "5">>, <<"7", "3", ".", "5">>,
     <<".", "5">>, <<"5", ".">>, <<".">>}

HelperPads == {<<>>, <<" ">>}

HelperSigns == {<<>>, <<"-">>, <<"+">>}

HelperSuffixes ==
    {<<>>, <<"N">>, <<"S">>, <<"E">>, <<"W">>, <<"n">>, <<"s">>, <<"e">>, <<"w">>, <<"x">>}

HelperWords ==
    {<<"i", "n", "f">>, <<"-", "i", "n", "f">>, <<"I", "n", "f", "i", "n", "i", "t", "y">>,
     <<"n", "a", "n">>, <<"i", "n", "f", "s">>, <<"n", "a", "n", "e">>, <<"a", "x">>}

HelperCoords ==
    {NoneV, Num(405), Num(-735), Num(910)}
    \cup {Str(pad \o sg \o lit \o suf \o pad) :
            pad \in HelperPads, sg \in HelperSigns, lit \in HelperLiterals,
            suf \in HelperSuffixes}
    \cup {Str(w) : w \in HelperWords}

\* NWS features and SPC rows handed to the record loops.
HelperAlertFeatures ==
    AlertFeatures
    \cup { [event |-> "Tsunami Watch",
            geom |-> Geom(<<Ch(Str(<<"x">>), Num(100)), Ch(Num(-700), Num(450))>>)],
           [event |-> "Flood Warning", geom |-> Geom(<<>>)],
           [event |-> "", geom |-> Geom(<<Ch(Num(200), Num(100))>>)] }

MaxHelperRecords == 3

HelperArgs ==
    {[kind |-> "alerts", feats |-> fs] :
        fs \in SeqsUpTo(HelperAlertFeatures, MaxHelperRecords)}
    \cup {[kind |-> "reports", subtype |-> k, rows |-> rs] :
            k \in {"tornado", "wind", "hail"},
            rs \in SeqsUpTo(SpcRowsData \cup {SpcHeader}, MaxHelperRecords)}
    \cup
    {[kind |-> "quake", mag |-> m, depth |-> d] : m \in HelperMags, d \in HelperDepths}
    \cup {[kind |-> "fire", lat |-> la, scan |-> sc, track |-> tr] :
            la \in HelperFireLats, sc \in HelperAngles, tr \in HelperAngles}
    \cup {[kind |-> "storm", storm |-> st] : st \in HelperStorms}
    \cup {[kind |-> k, v |-> c] : k \in {"lat", "lon"}, c \in HelperCoords}

InitHelpers ==
    /\ InitFetchVars
    /\ pc = "radar"
    /\ inflight = {}
    /\ started = {}
    /\ failAt = -1
    /\ anyOk = FALSE
    /\ errored = {}
    /\ spcIdx = 0
    /\ spcRows = <<>>
    /\ lsrCount = 0
    /\ results = <<>>
    /\ events = <<>>
    /\ counts = [k \in {"radar", "nws", "earthquakes", "fires", "storms"} |-> 0]
    /\ given = 0
    /\ valid = 0
    /\ eqSeen = [u \in {"2.5_day", "4.5_day"} |-> [st |-> "unset", feats |-> <<>>]]
    /\ cycleNo = 1
    /\ prevEvents = <<>>
    /\ fn = "none"
    /\ arg \in HelperArgs
    /\ out = NoneV
    /\ mpc = "quick"
    /\ elapsed = 0
    /\ log = <<>>

Returns(name, value) ==
    /\ fn = "none"
    /\ fn' = name
    /\ out' = value
    /\ UNCHANGED arg
    /\ UNCHANGED <<pc, inflight, started, failAt, anyOk, errored, spcIdx, spcRows, lsrCount,
                   results, events, counts, given, valid, eqSeen, pvars, mvars>>
    /\ UNCHANGED fvars

\* USGS: the attenuated radius and the clamped one, in metres.
CallQuakeRadius ==
    /\ arg.kind = "quake"
    /\ Returns("quake_radius",
               [attenuated |-> QuakeAttenuated(QuakeBaseRadiusM(arg.mag), arg.depth),
                radius |-> QuakeRadiusM(arg.mag, arg.depth)])

\* FIRMS: radius_m.
CallFireRadius ==
    /\ arg.kind = "fire"
    /\ Returns("fire_radius", FireRadiusM(arg.lat, arg.scan, arg.track))

\* NHC: estimate_tc_radius_km(s) and the clamped radius in metres.
CallEstimateTcRadius ==
    /\ arg.kind = "storm"
    /\ Returns("estimate_tc_radius_km",
               [km |-> estimate_tc_radius_km(arg.storm),
                radius |-> CycloneRadiusM(arg.storm)])

CallParseLat ==
    /\ arg.kind = "lat"
    /\ Returns("parse_lat", parse_lat(arg.v))

CallParseLon ==
    /\ arg.kind = "lon"
    /\ Returns("parse_lon", parse_lon(arg.v))

\* NWS: the loop over feats and nws_count.
CallAlertLoop ==
    /\ arg.kind = "alerts"
    /\ Returns("alert_loop",
               [events |-> AlertLoop(arg.feats, 1, <<>>),
                nws_count |-> Len(AlertLoop(arg.feats, 1, <<>>))])

\* SPC: the loop over the rows of one kind (rows already without rows[0]).
CallSpcLoop ==
    /\ arg.kind = "reports"
    /\ Returns("spc_loop", SpcLoop(arg.rows, 1, arg.subtype, <<>>))

NextHelpers ==
    \/ CallAlertLoop
    \/ CallSpcLoop
    \/ CallQuakeRadius
    \/ CallFireRadius
    \/ CallEstimateTcRadius
    \/ CallParseLat
    \/ CallParseLon

SpecHelpers == InitHelpers /\ [][NextHelpers]_vars

(***************************************************************************)
(* main: the polling loop.  Each pass builds and saves the quick map,      *)
(* builds the full map, saves it, tests the running time and sleeps.       *)
(***************************************************************************)
REFRESH_SECONDS == 120
MAX_RUNTIME_HOURS == 12

\* max_seconds = MAX_RUNTIME_HOURS * 3600 if MAX_RUNTIME_HOURS and
\* MAX_RUNTIME_HOURS > 0 else None
max_seconds ==
    IF MAX_RUNTIME_HOURS # 0 /\ MAX_RUNTIME_HOURS > 0
    THEN [t |-> "num", v |-> MAX_RUNTIME_HOURS * 3600]
    ELSE NoneV

\* Seconds one build may take (its fetches answer at once, or wait).
BuildSeconds == {0, 60}

\* The break taken one sleep late.
RuntimeReachedLate(e) == ~IsNone(max_seconds) /\ e >= max_seconds.v + REFRESH_SECONDS

\* max_seconds is not None and (_time.monotonic() - start) >= max_seconds
RuntimeReached(e) == ~IsNone(max_seconds) /\ e >= max_seconds.v

MainStays == UNCHANGED <<fvars, svars, pvars, xvars>>

\* try: mq = build_quick_map(); mq.save(MAP_FILENAME) except Exception: print
QuickMap ==
    /\ mpc = "quick"
    /\ \E d \in BuildSeconds, line \in {"quick", "quick error"} :
          /\ elapsed' = elapsed + d
          /\ log' = Append(log, line)
    /\ mpc' = "full"
    /\ MainStays

\* m = build_map(auto_refresh=True)
FullMap ==
    /\ mpc = "full"
    /\ \E d \in BuildSeconds : elapsed' = elapsed + d
    /\ log' = Append(log, "built")
    /\ mpc' = "save"
    /\ MainStays

\* try: m.save(MAP_FILENAME) except Exception: print
SaveFull ==
    /\ mpc = "save"
    /\ \E line \in {"full", "save error"} : log' = Append(log, line)
    /\ mpc' = "check"
    /\ UNCHANGED elapsed
    /\ MainStays

\* if max_seconds is not None and elapsed >= max_seconds: break
CheckRuntime ==
    /\ mpc = "check"
    /\ mpc' = IF RuntimeReached(elapsed) THEN "exited" ELSE "sleep"
    /\ UNCHANGED <<elapsed, log>>
    /\ MainStays

\* _time.sleep(REFRESH_SECONDS), then the next pass of while True
Sleep ==
    /\ mpc = "sleep"
    /\ elapsed' = elapsed + REFRESH_SECONDS
    /\ log' = <<>>
    /\ mpc' = "quick"
    /\ MainStays

InitMain == InitFetchVars /\ InitCycleVars

NextMain ==
    \/ QuickMap
    \/ FullMap
    \/ SaveFull
    \/ CheckRuntime
    \/ Sleep

SpecMain == InitMain /\ [][NextMain]_vars

\* Each step of the loop returns: every request has a timeout and the
\* sleep is finite.
SpecMainLive == SpecMain /\ WF_vars(NextMain)

(***************************************************************************)
(* Claims about the fetch client, checked under SpecFetch.                 *)
(***************************************************************************)
ThroughFetchClient == fCaller \in {"fetch_json", "fetch_text"}

AllAttemptsStatus(st) ==
    /\ fHist # <<>>
    /\ \A i \in 1..Len(fHist) : fHist[i].kind = "response" /\ fHist[i].status = st

AllAttemptsNetError ==
    /\ fHist # <<>>
    /\ \A i \in 1..Len(fHist) : fHist[i].kind = "error"

\* C1: a GET through fetch_json / fetch_text that is answered 503 on every
\* attempt makes exactly 3 attempts (1 + 2 retries) and then fails with a
\* status error (HTTPError kind); there is no 4th attempt and no body.
C1_Always503FailsAfterThreeAttempts ==
    (ThroughFetchClient /\ AllAttemptsStatus(503)) =>
        /\ Len(fHist) <= 3
        /\ fResult # "body"
        /\ (Len(fHist) < 3 => fState = "sending")
        /\ (Len(fHist) = 3 => fState = "done" /\ ErrorKind(fResult) = "HTTPError")

C1_Witness ==
    /\ fCaller = "fetch_json"
    /\ AllAttemptsStatus(503)
    /\ Len(fHist) = 3
    /\ fState = "done"
    /\ fResult = "RetryError"

\* C2 as stated: every non-2xx status outside {429,500,502,503,504} fails as
\* HTTPError after exactly one attempt.
C2_Original ==
    (/\ ThroughFetchClient
     /\ fHist # <<>>
     /\ fHist[1].kind = "response"
     /\ fHist[1].status \notin StatusForcelist
     /\ ~(fHist[1].status >= 200 /\ fHist[1].status < 300)) =>
        /\ Len(fHist) = 1
        /\ fState = "done"
        /\ ErrorKind(fResult) = "HTTPError"

\* C2 amended: every 4xx or 5xx status outside {429,500,502,503,504}, other
\* than a 413 that carries a Retry-After header, fails as HTTPError after
\* exactly one attempt (zero retries).
C2_ClientErrorFailsAtOnce ==
    (/\ ThroughFetchClient
     /\ fHist # <<>>
     /\ fHist[1].kind = "response"
     /\ fHist[1].status \notin StatusForcelist
     /\ fHist[1].status >= 400 /\ fHist[1].status < 600
     /\ ~(fHist[1].status = 413 /\ fHist[1].retryAfter)) =>
        /\ Len(fHist) = 1
        /\ fState = "done"
        /\ fResult = "HTTPError"

C2_Witness ==
    /\ fCaller = "fetch_text"
    /\ fState = "done"
    /\ Len(fHist) = 1
    /\ fHist[1].kind = "response"
    /\ fHist[1].status = 404
    /\ fResult = "HTTPError"

Done == pc = "done"

Rank(src) == CHOOSE i \in 1..Len(SourceOrder) : SourceOrder[i] = src

IsPrefix(a, b) == Len(a) <= Len(b) /\ SubSeq(b, 1, Len(a)) = a

PointEventCount == Cardinality({i \in 1..Len(events) : events[i].pos # <<>>})

\* C4: fetch failures are isolated.  A finished cycle has fetched every one
\* of the seven sources whatever failed before it; a failure never removes
\* or blocks events (the event list only grows, and a cycle that is not
\* finished always has a next step); a cycle in which no fetch succeeded
\* finishes with zero events.
C4_FailuresAreIsolated ==
    /\ [](Done => started = Sources)
    /\ [](Done /\ ~anyOk => events = <<>>)
    /\ [](~Done => ENABLED Next)
    /\ [](failAt <= Len(events))
    /\ [][IsPrefix(events, events')]_vars

\* A finished cycle in which a fetch failed and a later source still emitted.
C4_Witness == Done /\ failAt >= 0 /\ Len(events) > failAt /\ started = Sources

\* C5: events are grouped by source in the fixed order radar, volcano,
\* alerts, severe-reports, earthquakes, wildfires, cyclones: no event of a
\* later source precedes an event of an earlier source.
C5_EventsInSourceOrder ==
    \A i, j \in 1..Len(events) :
        i < j => Rank(events[i].src) <= Rank(events[j].src)

\* Both earthquake feeds answered, the second-listed one first, and a
\* wildfire event follows the earthquake events.
C5_Witness ==
    /\ Done
    /\ Len(results) = 2
    /\ \E i, j \in 1..Len(events) :
          i < j /\ events[i].src = "earthquakes" /\ events[j].src = "wildfires"

\* C6 as stated: two polls that receive identical feed responses produce
\* the identical sequence of events, whichever earthquake feed completes
\* first.
C6_Original ==
    (cycleNo = 2 /\ pc = "wildfires") => events = prevEvents

\* C7 as stated: no emitted event has a latitude outside [-90,90] or a
\* longitude outside [-180,180] (positions are in tenths of a degree).
C7_Original ==
    \A i \in 1..Len(events) :
        events[i].pos # <<>> =>
            /\ events[i].pos[1] >= -900 /\ events[i].pos[1] <= 900
            /\ events[i].pos[2] >= -1800 /\ events[i].pos[2] <= 1800

\* C8 as stated: a record with a missing or unparseable required field is
\* the only one dropped, so a finished cycle has emitted one point event per
\* valid record its feeds handed out, and no source is reported as failed
\* because of a record.
C8_Original ==
    Done => PointEventCount = valid /\ errored = {}

\* The statistics key of a source.
StatKey(src) ==
    CASE src = "radar" -> "radar"
      [] src = "volcano" -> "volcano"
      [] src = "alerts" -> "nws"
      [] src = "severe-reports" -> "spc_lsr"
      [] src = "earthquakes" -> "earthquakes"
      [] src = "wildfires" -> "fires"
      [] src = "cyclones" -> "storms"

\* C9 as stated: after a poll cycle the per-source statistics hold an entry
\* for each of the seven sources.
C9_Original ==
    Done => \A src \in Sources : StatKey(src) \in DOMAIN counts

\* C10 as stated: while a fetch is outstanding, a source that has not
\* started can start: it never waits for another source's fetch to finish.
C10_Original ==
    (inflight # {} /\ started # Sources) => ENABLED (Issue \/ SpcIssue \/ EqSubmit)

EarthquakeEventCount ==
    Cardinality({i \in 1..Len(events) : events[i].src = "earthquakes"})

\* C11: the USGS results are parsed only after each of the two submitted
\* sub-fetches has completed or failed (nothing is in flight and both feeds
\* have answered or raised), no earthquake is drawn before that, and the
\* cycle ends only after every source was fetched and nothing is in flight.
C11_AssemblyAfterAllSubFetches ==
    /\ pc = "earthquakes-parse" =>
          /\ inflight = {}
          /\ \A u \in Submitted(EqUrls) : eqSeen[u].st \in {"ok", "fail"}
    /\ pc \in {"earthquakes", "earthquakes-wait"} => EarthquakeEventCount = 0
    /\ Done => inflight = {} /\ started = Sources

\* Parsing is about to start after one feed answered and the other raised.
C11_Witness ==
    /\ pc = "earthquakes-parse"
    /\ Len(results) = 1
    /\ \E u \in Submitted(EqUrls) : eqSeen[u].st = "fail"

\* C12: at most MAX_WORKERS (6) HTTP requests are in flight at any time of a
\* poll cycle.
C12_AtMostSixInFlight == Cardinality(inflight) <= 6

\* Both USGS requests are in flight together.
C12_Witness == pc = "earthquakes-wait" /\ Cardinality(inflight) = 2

\* C13 as stated: under every interleaving of the two earthquake
\* sub-fetches the final earthquake count equals the number of earthquake
\* events emitted.
C13_Original ==
    pc \in {"wildfires", "cyclones", "done"} => counts["earthquakes"] = EarthquakeEventCount

(***************************************************************************)
(* Claims about the radius estimators and the coordinate parser.           *)
(***************************************************************************)
\* C14: for every magnitude and every depth (present or absent) the seismic
\* radius after clamping lies in [2, 300] km.
C14_QuakeRadiusClamped ==
    fn = "quake_radius" => out.radius >= 2000 /\ out.radius <= 300000

\* A radius above 300 km that the clamp brought down to 300 km.
C14_Witness ==
    /\ fn = "quake_radius"
    /\ out.attenuated > 300000
    /\ out.radius = 300000

\* C15: the base radius is halved when depth > 300 km, multiplied by 0.7
\* when 70 km < depth <= 300 km and left alone when depth <= 70 km or
\* absent; M 6.0 gives 78.8 km at depth 10, 39.4 km at depth 400, the 0.7
\* factor at depth exactly 300 and no attenuation at depth exactly 70.
C15_DepthAttenuation ==
    fn = "quake_radius" =>
        LET base == QuakeBaseRadiusM(arg.mag)
            d == arg.depth
        IN  /\ (d.t = "num" /\ d.v > 3000) => out.attenuated = (base * 5) \div 10
            /\ (d.t = "num" /\ d.v > 700 /\ d.v <= 3000) =>
                    out.attenuated = (base * 7) \div 10
            /\ (d.t = "none" \/ (d.t = "num" /\ d.v <= 700)) => out.attenuated = base
            /\ (arg.mag = 60 /\ d = Num(100)) => out.attenuated = 78782
            /\ (arg.mag = 60 /\ d = Num(4000)) => out.attenuated = 39391
            /\ (arg.mag = 60 /\ d = Num(3000)) => out.attenuated = 55147
            /\ (arg.mag = 60 /\ d = Num(700)) => out.attenuated = 78782

\* M 6.0 at depth exactly 300 km: the 0.7 factor was applied.
C15_Witness ==
    /\ fn = "quake_radius"
    /\ arg.mag = 60 /\ arg.depth = Num(3000)
    /\ out.attenuated = 55147

\* The wind bands as the specification lists them (w in tenths of a knot).
SpecWindBandKm(w) ==
    CASE w < 340 -> 100
      [] w >= 340 /\ w < 500 -> 150
      [] w >= 500 /\ w < 640 -> 200
      [] w >= 640 /\ w < 830 -> 250
      [] w >= 830 /\ w < 960 -> 300
      [] w >= 960 /\ w < 1130 -> 350
      [] w >= 1130 /\ w < 1370 -> 420
      [] OTHER -> 500

\* C16 as stated: for every storm whose sustained wind is present, w = 0
\* included, the radius is the one of the wind band, whatever the category
\* code and the status string are.
C16_Original ==
    (fn = "estimate_tc_radius_km" /\ arg.storm.wind.t = "num") =>
        out.km = SpecWindBandKm(arg.storm.wind.v)

\* None of the wind fields is present.
NoWindField(storm) ==
    /\ IsNone(storm.wind) /\ IsNone(storm.maxWind)
    /\ IsNone(storm.intensity) /\ IsNone(storm.sustainedWind)

\* The category code of a storm if it is one of the map's keys 0..5, else -1.
SpecCategoryCode(storm) ==
    IF IsNone(storm.sshs) \/ IntRaises(storm.sshs) THEN -1
    ELSE IF IntOf(storm.sshs) \in 0..5 THEN IntOf(storm.sshs)
    ELSE -1

\* The cascade as the specification lists it, for a storm without wind.
SpecCascadeKm(storm) ==
    LET c == SpecCategoryCode(storm)
        st == StatusText(storm)
    IN  IF c \in {0, 1} THEN 250
        ELSE IF c = 2 THEN 300
        ELSE IF c = 3 THEN 350
        ELSE IF c = 4 THEN 420
        ELSE IF c = 5 THEN 500
        ELSE IF Contains(st, <<"T", "D">>) THEN 120
        ELSE IF Contains(st, <<"T", "S">>) THEN 200
        ELSE IF Contains(st, <<"H", "U">>) THEN 320
        ELSE 200

\* C17 as stated: without wind the radius comes from the category map; when
\* the category code yields no radius the status string decides (TD 120,
\* TS 200, HU 320); only when none applies the default 200 km is used.
C17_Original ==
    (fn = "estimate_tc_radius_km" /\ NoWindField(arg.storm)) =>
        out.km = SpecCascadeKm(arg.storm)

\* C18: without scan or track the wildfire radius is exactly 500 m; with
\* both (and a latitude) it is the area-equivalent radius clamped to
\* [150, 2000] m: 2000 m for a 1-degree pixel at the equator, 150 m at the
\* pole, in between for a 0.1-degree pixel at latitude 89.9; every radius
\* lies in [150, 2000] m.
C18_FireRadius ==
    fn = "fire_radius" =>
        /\ (IsNone(arg.scan) \/ IsNone(arg.track)) => out = 500
        /\ out >= 150 /\ out <= 2000
        /\ (arg.lat = Num(0) /\ arg.scan = Num(10) /\ arg.track = Num(10)) => out = 2000
        /\ (arg.lat = Num(900) /\ ~IsNone(arg.scan) /\ ~IsNone(arg.track)) => out = 150
        /\ (arg.lat = Num(899) /\ arg.scan = Num(1) /\ arg.track = Num(1)) =>
                out > 150 /\ out < 2000

\* A footprint computed from scan and track that the clamp left alone.
C18_Witness ==
    /\ fn = "fire_radius"
    /\ ~IsNone(arg.scan) /\ ~IsNone(arg.track) /\ ~IsNone(arg.lat)
    /\ out > 150 /\ out < 2000 /\ out # 500

\* s is a signed decimal literal: an optional sign, digits with at most one
\* point, at least one digit.
IsDecimal(s) ==
    LET b == IF s # <<>> /\ Head(s) \in {"-", "+"} THEN Tail(s) ELSE s
    IN  /\ \A i \in 1..Len(b) : b[i] \in Digits \cup {"."}
        /\ \E i \in 1..Len(b) : b[i] \in Digits
        /\ Cardinality({i \in 1..Len(b) : b[i] = "."}) <= 1

Hemispheres(name) == IF name = "parse_lat" THEN <<"N", "S">> ELSE <<"E", "W">>

\* The trimmed, upper-cased text of the argument.
Trimmed == Upper(Strip(arg.v.s))

HasSuffix(c) == Trimmed # <<>> /\ Trimmed[Len(Trimmed)] = c

\* The text without its last character.
Stem == SubSeq(Trimmed, 1, Len(Trimmed) - 1)

\* C19: for a decimal d, parse_lat(d N) = d, parse_lat(d S) = -d,
\* parse_lon(d E) = d, parse_lon(d W) = -d after trimming and upper-casing;
\* a number is returned unchanged; a text without hemisphere letter is read
\* as a signed decimal; no range check: 40.5N gives 40.5, 73.5W gives -73.5,
\* 91N gives 91.0.
C19_HemisphereRule ==
    fn \in {"parse_lat", "parse_lon"} =>
        /\ arg.v.t = "num" => out = arg.v
        /\ arg.v.t = "str" =>
              /\ (HasSuffix(Hemispheres(fn)[1]) /\ IsDecimal(Stem)) =>
                      out = FloatOfStr(Stem)
              /\ (HasSuffix(Hemispheres(fn)[2]) /\ IsDecimal(Stem)) =>
                      out = Num(0 - FloatOfStr(Stem).v)
              /\ IsDecimal(Trimmed) => out = FloatOfStr(Trimmed)
        /\ (fn = "parse_lat" /\ arg.v = Str(<<"4", "0", ".", "5", "N">>)) => out = Num(405)
        /\ (fn = "parse_lon" /\ arg.v = Str(<<"7", "3", ".", "5", "W">>)) => out = Num(-735)
        /\ (fn = "parse_lat" /\ arg.v = Str(<<"9", "1", "N">>)) => out = Num(910)
        /\ (fn = "parse_lat" /\ arg.v = Str(<<" ", "-", "5", "s", " ">>)) => out = Num(50)

\* parse_lon was given 73.5W and returned -73.5.
C19_Witness ==
    /\ fn = "parse_lon"
    /\ arg.v = Str(<<"7", "3", ".", "5", "W">>)
    /\ out = Num(-735)

\* What is left of the text once an optional hemisphere letter is taken off.
Remainder ==
    IF HasSuffix(Hemispheres(fn)[1]) \/ HasSuffix(Hemispheres(fn)[2]) THEN Stem
    ELSE Trimmed

\* C20 as stated: for null input, empty input or a text whose remainder is
\* not a decimal number, parse_lat / parse_lon return the failure value.
C20_Original ==
    fn \in {"parse_lat", "parse_lon"} =>
        /\ IsNone(arg.v) => IsNone(out)
        /\ (arg.v.t = "str" /\ ~IsDecimal(Remainder)) => IsNone(out)

(***************************************************************************)
(* Claims about the record loops.                                          *)
(***************************************************************************)
\* A coordinate pair of two numbers.
IsValidPair(p) == p[1].t = "num" /\ p[2].t = "num"

\* The feature passes the three tests the specification lists.
IsRecognizedAlert(f) ==
    /\ f.event \in IncludeEvents
    /\ f.geom.t = "geom"
    /\ \E i \in 1..Len(f.geom.pairs) : IsValidPair(f.geom.pairs[i])

\* C21: an alert feature is emitted if and only if its event name is in the
\* recognized set, it has a geometry and the geometry holds at least one
\* valid pair; the emitted features keep the feed's order and the alert
\* count is their number.
C21_AlertFilter ==
    fn = "alert_loop" =>
        LET kept == SelectSeq(arg.feats, IsRecognizedAlert)
        IN  /\ Len(out.events) = Len(kept)
            /\ \A i \in 1..Len(kept) :
                  out.events[i] = AreaEvent("alerts", kept[i].event)
            /\ out.nws_count = Len(kept)

\* Three features were read: one was emitted, one dropped for its
\* coordinates and one for its event name.
C21_Witness ==
    /\ fn = "alert_loop"
    /\ Len(arg.feats) = 3
    /\ out.nws_count = 1
    /\ \E i \in 1..3 : arg.feats[i].event \notin IncludeEvents
    /\ \E i \in 1..3 :
          /\ arg.feats[i].event \in IncludeEvents
          /\ arg.feats[i].geom.t = "geom"
          /\ ~IsRecognizedAlert(arg.feats[i])

\* The row has 8 columns or more and its last two columns are numbers.
IsUsableReport(r) ==
    r.n >= 8 /\ to_float(r.lat).t = "num" /\ to_float(r.lon).t = "num"

C23_NoFilterNoDedupNoReorder ==
    /\ [][IsPrefix(events, events')]_vars
    /\ [](Done /\ errored = {} => PointEventCount = valid)

\* An earthquake and a wildfire at the same position are both on the map.
C23_Witness ==
    /\ Done
    /\ \E i, j \in 1..Len(events) :
          /\ events[i].src = "earthquakes"
          /\ events[j].src = "wildfires"
          /\ events[i].pos = events[j].pos

\* C24: every request returns or times out, so every poll cycle ends: a
\* source that hangs fails when its timeout is over and the cycle goes on
\* with the sources that remain.
C24_CycleTerminates == <>Done

\* The cycle ended although the fetch of its last source failed.
C24_Witness == Done /\ failAt = Len(events) /\ anyOk

\* C25: before clamping and for a fixed depth the seismic radius does not
\* decrease when the magnitude grows.
C25_MonotoneInMagnitude ==
    fn = "quake_radius" =>
        \A m2 \in HelperMags :
            arg.mag <= m2 =>
                out.attenuated <= QuakeAttenuated(QuakeBaseRadiusM(m2), arg.depth)

\* M 6.0 at depth 100 km: a smaller radius than M 7.0 at the same depth.
C25_Witness ==
    /\ fn = "quake_radius"
    /\ arg.mag = 60 /\ arg.depth = Num(1000)
    /\ out.attenuated < QuakeAttenuated(QuakeBaseRadiusM(70), arg.depth)

\* The attempts before the last were all answered with a forcelisted status
\* and the last one with 200.
RetriedThenOk ==
    /\ Len(fHist) \in {2, 3}
    /\ \A i \in 1..(Len(fHist) - 1) :
          fHist[i].kind = "response" /\ fHist[i].status \in StatusForcelist
    /\ fHist[Len(fHist)].kind = "response" /\ fHist[Len(fHist)].status = 200

\* C26: a GET answered with a status in {429,500,502,503,504} on its first
\* or first two attempts and then with 200 is retried and ends with the 200
\* response: no status or network error is raised, fetch_text returns the
\* body (fetch_json the decoded body), and there are at most 3 attempts.
C26_RetryThenSuccess ==
    /\ Len(fHist) <= 3
    /\ (/\ ThroughFetchClient
        /\ Len(fHist) \in {1, 2}
        /\ \A i \in 1..Len(fHist) :
              fHist[i].kind = "response" /\ fHist[i].status \in StatusForcelist) =>
            fState = "sending"
    /\ (ThroughFetchClient /\ RetriedThenOk) =>
            /\ fState = "done"
            /\ fResult \in CallerResults(fCaller, 200)
            /\ ErrorKind(fResult) \notin {"HTTPError", "NetworkError"}
            /\ fCaller = "fetch_text" => fResult = "body"

\* fetch_json got 429, then 500, then 200, and returned the body.
C26_Witness ==
    /\ fCaller = "fetch_json"
    /\ RetriedThenOk
    /\ Len(fHist) = 3
    /\ fHist[1].status = 429 /\ fHist[2].status = 500
    /\ fResult = "body"

(***************************************************************************)
(* Claims about field selection and the seismic source.                    *)
(***************************************************************************)
\* The value of the first wind field that is present, in the order wind,
\* maxWind, intensity, sustainedWind; None when all are absent.
SpecFirstPresentWind(storm) ==
    IF ~IsNone(storm.wind) THEN storm.wind
    ELSE IF ~IsNone(storm.maxWind) THEN storm.maxWind
    ELSE IF ~IsNone(storm.intensity) THEN storm.intensity
    ELSE storm.sustainedWind

\* C27 as stated: the wind is the value of the first candidate key that is
\* present, used even when it is 0; a later key is consulted only when every
\* earlier key is absent.
C27_Original ==
    (fn = "estimate_tc_radius_km" /\ SpecFirstPresentWind(arg.storm).t = "num") =>
        out.km = SpecWindBandKm(Max(0, SpecFirstPresentWind(arg.storm).v))

\* The section after the USGS section has been reached.
AfterUsgs == pc \in {"wildfires", "cyclones", "done"}

FeedsWith(st) == {u \in Submitted(EqUrls) : eqSeen[u].st = st}

\* The features of a fetched feed that are events: two coordinates that are
\* numbers and a numeric magnitude.
SpecFeedEvents(u) ==
    CountIn(eqSeen[u].feats, {f \in QuakeFeatures : QuakeValid(f)})

\* C28 as stated: when exactly one earthquake feed fails, the events of the
\* other feed are all emitted and the earthquake count is their number;
\* when both fail no earthquake is emitted.
C28_Original ==
    AfterUsgs =>
        /\ (Cardinality(FeedsWith("fail")) = 1 /\ Cardinality(FeedsWith("ok")) = 1) =>
              \A u \in FeedsWith("ok") :
                  /\ EarthquakeEventCount = SpecFeedEvents(u)
                  /\ counts["earthquakes"] = SpecFeedEvents(u)
        /\ Cardinality(FeedsWith("fail")) = 2 => EarthquakeEventCount = 0

\* The features of a fetched feed with at least two coordinates and a
\* numeric magnitude.
SpecFeedFeatures(u) ==
    CountIn(eqSeen[u].feats,
            {f \in QuakeFeatures : Len(f.coords) >= 2 /\ to_float(f.mag).t = "num"})

\* C29 as stated: the earthquake count always equals the sum over the
\* fetched feeds of the features that have at least two coordinates and a
\* numeric magnitude (a quake in both feeds counts twice).
C29_Original ==
    AfterUsgs =>
        counts["earthquakes"] =
            (IF eqSeen["2.5_day"].st = "ok" THEN SpecFeedFeatures("2.5_day") ELSE 0)
            + (IF eqSeen["4.5_day"].st = "ok" THEN SpecFeedFeatures("4.5_day") ELSE 0)

(***************************************************************************)
(* Claims about the polling loop of main.                                  *)
(***************************************************************************)
InLog(line) == \E i \in 1..Len(log) : log[i] = line

\* C30: in every pass the quick map is attempted, and written, before the
\* full map; a quick-map failure does not keep the full map of the same pass
\* from being built; the loop exits only after a full pass; once the elapsed
\* time has reached MAX_RUNTIME_HOURS the loop exits at the end of the pass
\* without sleeping again, and the program eventually terminates.
C30_MainLoop ==
    /\ []((InLog("built") \/ InLog("full")) =>
             /\ log[1] \in {"quick", "quick error"}
             /\ \A i, j \in 1..Len(log) :
                   (log[i] = "quick" /\ log[j] \in {"built", "full"}) => i < j)
    /\ (InLog("quick error") ~> InLog("built"))
    /\ [](mpc \in {"check", "sleep", "exited"} => InLog("built"))
    /\ [](mpc = "sleep" => elapsed < MAX_RUNTIME_HOURS * 3600)
    /\ [][(mpc = "check" /\ elapsed >= MAX_RUNTIME_HOURS * 3600) => mpc' = "exited"]_vars
    /\ <>(mpc = "exited")

\* The loop has exited at the runtime limit after a pass whose quick map
\* failed and whose full map was built and saved.
C30_Witness ==
    /\ mpc = "exited"
    /\ elapsed >= MAX_RUNTIME_HOURS * 3600
    /\ log = <<"quick error", "built", "full">>

====
